---- MODULE Spec2Model ----
(***************************************************************************)
(* Order Lifecycle Manager of the Seneca Book Store (order-service), with  *)
(* the part of the catalog-service it reads through get_book_info.         *)
(*                                                                         *)
(* Representation.  Money is in cents (29.99 -> 2999); the products the    *)
(* code computes in floating point (3.99 * 7 * 2 = 55.86, 29.99 * 2 =      *)
(* 59.98) are exact at these values.  Timestamps are whole days.  A notes  *)
(* text is represented by its length.  NULL stands for None / SQL NULL in  *)
(* every optional integer-valued field.                                    *)
(***************************************************************************)
EXTENDS Integers, Sequences, FiniteSets, TLC

VARIABLES
    orders,      \* the orders table, in id order: orders[i].id = i
    books,       \* the catalog's books table: book id -> row
    users,       \* the user service's users table, in id order
    now,         \* datetime.utcnow(), in days
    pc,          \* per worker: position inside the POST /orders handler
    req,         \* per worker: the OrderCreate body and the acting user
    book_info,   \* per worker: the dict get_book_info returned
    result       \* the last HTTP response sent by the order service

vars == <<orders, books, users, now, pc, req, book_info, result>>

----------------------------------------------------------------------------
(* Bounds of the model *)

MaxOrders == 1
MaxOrdersConc == 2
MaxTime == 2
MaxStock == 1
MaxOrdersMany == 4
MaxOrdersList == 3

----------------------------------------------------------------------------
(* Types of the program *)

NULL == -1

\* None in an optional enum-valued query parameter
Unset == ""

BUY == "buy"
RENT == "rent"
OrderType == {BUY, RENT}

PENDING == "pending"
CONFIRMED == "confirmed"
COMPLETED == "completed"
CANCELLED == "cancelled"
RETURNED == "returned"
OrderStatus == {PENDING, CONFIRMED, COMPLETED, CANCELLED, RETURNED}

MinQuantity == 1
MaxQuantity == 10
MinRentalDays == 1
MaxRentalDays == 365
MaxNotesLen == 500

Users == {1, 2}
Procs == {1, 2}
BookIds == {1, 2}

NoReq ==
    [user_id |-> NULL, book_id |-> NULL, order_type |-> BUY, quantity |-> NULL,
     rental_days |-> NULL, notes |-> NULL]

NoBook ==
    [title |-> "", author |-> "", isbn |-> "", price |-> NULL, rent_price |-> NULL,
     available |-> FALSE, stock_quantity |-> NULL]

NoResult == [op |-> "none", status |-> 0, detail |-> ""]

Response(op, status, detail) == [op |-> op, status |-> status, detail |-> detail]

----------------------------------------------------------------------------
(* Catalog service *)

SeedBook ==
    [title |-> "Test Book 1", author |-> "Test Author", isbn |-> "978-0000000001",
     price |-> 2999, rent_price |-> 399, available |-> TRUE, stock_quantity |-> 5]

\* crud.update_book: setattr for every field the request set (exclude_unset)
ApplyBookUpdate(book, update_data) ==
    [f \in DOMAIN book |->
        IF f \in DOMAIN update_data THEN update_data[f] ELSE book[f]]

\* an update that also rewrites the book details of the orders for the book
UpdateBook_Cascade(book_id, update_data) ==
    /\ book_id \in DOMAIN books
    /\ books' = [books EXCEPT ![book_id] = ApplyBookUpdate(@, update_data)]
    /\ orders' = [i \in 1..Len(orders) |->
                     IF orders[i].book_id = book_id
                     THEN [orders[i] EXCEPT
                             !.book_title = books'[book_id].title,
                             !.book_author = books'[book_id].author,
                             !.book_isbn = books'[book_id].isbn]
                     ELSE orders[i]]
    /\ UNCHANGED <<now, users, pc, req, book_info, result>>

\* SQL NULL in the isbn column (None in the request); "" is the empty string
NoIsbn == "None"

\* the unique index on Book.isbn: several rows may hold NULL, no two rows the
\* same string
UniqueIsbn(table) ==
    \A a, b \in DOMAIN table :
        (a # b /\ table[a].isbn # NoIsbn) => table[a].isbn # table[b].isbn

\* db.commit(): an IntegrityError leaves the table as it was
Commit(table) == IF UniqueIsbn(table) THEN table ELSE books

\* PUT /books/{book_id}
UpdateBook(book_id, update_data) ==
    /\ book_id \in DOMAIN books
    /\ books' = Commit([books EXCEPT ![book_id] = ApplyBookUpdate(@, update_data)])
    /\ UNCHANGED <<orders, now, users, pc, req, book_info, result>>

\* DELETE /books/{book_id}
DeleteBook(book_id) ==
    /\ book_id \in DOMAIN books
    /\ books' = [b \in DOMAIN books \ {book_id} |-> books[b]]
    /\ UNCHANGED <<orders, now, users, pc, req, book_info, result>>

\* the columns of Book a request can name, and the fields of BookCreate
BookColumns ==
    {"title", "author", "isbn", "description", "category", "price", "rent_price",
     "available", "stock_quantity", "publication_year", "publisher"}

BookCreateFields == BookColumns \cup {"cover_url", "source", "external_key"}

\* crud.get_book_by_isbn: the rows whose isbn equals the argument (none for NULL)
get_book_by_isbn(isbn) ==
    {b \in DOMAIN books : isbn # NoIsbn /\ books[b].isbn = isbn}

\* the truth value of an optional string in Python: None and "" are false
Truthy(str) == str \notin {NoIsbn, ""}

NextBookId ==
    IF DOMAIN books = {} THEN 1
    ELSE 1 + CHOOSE m \in DOMAIN books : \A b \in DOMAIN books : b <= m

\* crud.create_book: Book(**book.dict()) raises TypeError for a keyword that is
\* no attribute of Book; otherwise the row is added and committed
crud_create_book(book) ==
    IF BookCreateFields \subseteq BookColumns
    THEN Commit(books @@ (NextBookId :> book))
    ELSE books

\* POST /books
CreateBook(book) ==
    /\ IF Truthy(book.isbn) /\ get_book_by_isbn(book.isbn) # {}
       THEN /\ result' = Response("create_book", 400, "Book with this ISBN already exists")
            /\ UNCHANGED books
       ELSE /\ books' = crud_create_book(book)
            /\ result' = IF books' # books
                         THEN Response("create_book", 200, "")
                         ELSE Response("create_book", 500, "Internal Server Error")
    /\ UNCHANGED <<orders, now, users, pc, req, book_info>>

\* POST /books/import
ImportBook(book) ==
    /\ IF Truthy(book.isbn) /\ get_book_by_isbn(book.isbn) # {}
       THEN /\ result' = Response("import", 409,
                              "Book with ISBN '" \o book.isbn \o "' already exists in catalog")
            /\ UNCHANGED books
       ELSE /\ books' = crud_create_book(book)
            /\ result' = IF books' # books
                         THEN Response("import", 200, "")
                         ELSE Response("import", 500, "Failed to import book to catalog")
    /\ UNCHANGED <<orders, now, users, pc, req, book_info>>

----------------------------------------------------------------------------
(* User service *)

\* a lookup by email that finds no row
get_user_by_email_Blind(email) == {}

\* crud.get_user_by_email: the ids of the rows whose email equals the argument
get_user_by_email(email) == {i \in 1..Len(users) : users[i].email = email}

\* auth.get_password_hash: the stored value is not the password
get_password_hash(password) == <<"hash", password>>

\* crud.create_user
create_user(user) ==
    Append(users,
           [id |-> Len(users) + 1, email |-> user.email,
            hashed_password |-> get_password_hash(user.password),
            full_name |-> user.full_name, is_admin |-> user.is_admin])

\* POST /register
register_user(user) ==
    /\ IF get_user_by_email(user.email) # {}
       THEN /\ result' = Response("register", 400, "Email already registered")
            /\ UNCHANGED users
       ELSE /\ users' = create_user(user)
            /\ result' = Response("register", 200, "")
    /\ UNCHANGED <<orders, books, now, pc, req, book_info>>

----------------------------------------------------------------------------
(* Order service: request validation (schemas.py) *)

ValidNotes(notes) == notes = NULL \/ notes <= MaxNotesLen

\* validate_rental_days without the branch for buy orders
validate_rental_days_RentOnly(order_type, v) ==
    IF order_type = RENT THEN ~(v = NULL \/ v < 1) ELSE TRUE

\* OrderCreate.validate_rental_days
validate_rental_days(order_type, v) ==
    IF order_type = RENT THEN ~(v = NULL \/ v < 1)
    ELSE ~(order_type = BUY /\ v # NULL)

\* OrderCreate: the Field constraints and the validator
ValidOrderCreate(r) ==
    /\ r.book_id > 0
    /\ r.order_type \in OrderType
    /\ r.quantity >= MinQuantity /\ r.quantity <= MaxQuantity
    /\ r.rental_days # NULL =>
          (r.rental_days >= MinRentalDays /\ r.rental_days <= MaxRentalDays)
    /\ ValidNotes(r.notes)
    /\ validate_rental_days(r.order_type, r.rental_days)

----------------------------------------------------------------------------
(* Order service: POST /orders *)

\* auth.get_book_info asking the catalog again after a failed request and
\* returning what the second request answers
get_book_info_Retry(book_id, net) ==
    IF book_id \in DOMAIN books THEN <<"ok", books[book_id]>>
    ELSE <<"notfound", NoBook>>

\* auth.get_book_info: what the catalog answers for book_id, as
\* <<outcome, book>>; net = FALSE is a RequestException or a status other
\* than 200 and 404
get_book_info(book_id, net) ==
    IF ~net THEN <<"unavailable", NoBook>>
    ELSE IF book_id \in DOMAIN books THEN <<"ok", books[book_id]>>
    ELSE <<"notfound", NoBook>>

\* crud.create_order, total_amount without the rental length
TotalAmount_NoDays(order_type, unit_price, quantity, rental_days) ==
    unit_price * quantity

\* crud.create_order, total_amount without the quantity
TotalAmount_NoQuantity(order_type, unit_price, quantity, rental_days) ==
    IF order_type = BUY THEN unit_price ELSE unit_price * rental_days * quantity

\* crud.create_order: total_amount
TotalAmount(order_type, unit_price, quantity, rental_days) ==
    IF order_type = BUY
    THEN unit_price * quantity
    ELSE unit_price * rental_days * quantity

\* the column default of Order.status in place of the explicit status
CreatedStatus_Default == PENDING

\* crud.create_order: the status it gives the new row
CreatedStatus == CONFIRMED

\* crud.create_order: the row it inserts
NewOrder(id, r, info, t) ==
    LET unit_price == IF r.order_type = BUY THEN info.price ELSE info.rent_price
        total_amount == TotalAmount(r.order_type, unit_price, r.quantity, r.rental_days)
        rental_start_date == IF r.order_type = BUY THEN NULL ELSE t
        rental_end_date == IF r.order_type = BUY THEN NULL ELSE t + r.rental_days
    IN [id |-> id,
        user_id |-> r.user_id,
        book_id |-> r.book_id,
        order_type |-> r.order_type,
        status |-> CreatedStatus,
        book_title |-> info.title,
        book_author |-> info.author,
        book_isbn |-> info.isbn,
        unit_price |-> unit_price,
        quantity |-> r.quantity,
        total_amount |-> total_amount,
        rental_days |-> r.rental_days,
        rental_start_date |-> rental_start_date,
        rental_end_date |-> rental_end_date,
        rental_returned_date |-> NULL,
        notes |-> r.notes,
        created_at |-> t,
        updated_at |-> t]

\* main.create_order with the stock tested before the availability flag
CatalogChecks_StockFirst(info, quantity) ==
    IF info.stock_quantity < quantity THEN "Not enough stock"
    ELSE IF ~info.available THEN "Book is not available"
    ELSE ""

\* main.create_order with a stock check that only refuses an empty shelf
CatalogChecks_OnlyEmpty(info, quantity) ==
    IF ~info.available THEN "Book is not available"
    ELSE IF info.stock_quantity < 1 THEN "Not enough stock"
    ELSE ""

\* main.create_order, the two checks on the looked-up book: the detail of
\* the 400 response, "" when both pass
CatalogChecks(info, quantity) ==
    IF ~info.available THEN "Book is not available"
    ELSE IF info.stock_quantity < quantity THEN "Not enough stock"
    ELSE ""

\* main.create_order up to the call of crud.create_order: body validation,
\* the catalog lookup and the availability and stock checks
CreateOrderCheck(p, r, net) ==
    /\ pc[p] = "idle"
    /\ UNCHANGED <<orders, books, now, users>>
    /\ IF ~ValidOrderCreate(r)
       THEN /\ result' = Response("create", 422, "validation error")
            /\ UNCHANGED <<pc, req, book_info>>
       ELSE LET got == get_book_info(r.book_id, net)
                info == got[2]
            IN  IF got[1] = "unavailable"
                THEN /\ result' = Response("create", 503, "Catalog service unavailable")
                     /\ UNCHANGED <<pc, req, book_info>>
                ELSE IF got[1] = "notfound"
                THEN /\ result' = Response("create", 404, "Book not found")
                     /\ UNCHANGED <<pc, req, book_info>>
                ELSE IF CatalogChecks(info, r.quantity) # ""
                THEN /\ result' = Response("create", 400, CatalogChecks(info, r.quantity))
                     /\ UNCHANGED <<pc, req, book_info>>
                ELSE /\ pc' = [pc EXCEPT ![p] = "checked"]
                     /\ req' = [req EXCEPT ![p] = r]
                     /\ book_info' = [book_info EXCEPT ![p] = info]
                     /\ UNCHANGED result

\* the insert made to look at the stock again, against the rows persisted
\* for the book since the lookup
CreateOrderInsert_Recheck(p) ==
    LET sold[n \in 0..Len(orders)] ==
            IF n = 0 THEN 0
            ELSE sold[n - 1] + (IF orders[n].book_id = req[p].book_id
                                THEN orders[n].quantity ELSE 0)
        other == sold[Len(orders)]
    IN
    /\ pc[p] = "checked"
    /\ pc' = [pc EXCEPT ![p] = "idle"]
    /\ req' = [req EXCEPT ![p] = NoReq]
    /\ book_info' = [book_info EXCEPT ![p] = NoBook]
    /\ UNCHANGED <<books, now, users>>
    /\ IF other + req[p].quantity > book_info[p].stock_quantity
       THEN /\ result' = Response("create", 400, "Not enough stock")
            /\ UNCHANGED orders
       ELSE /\ orders' = Append(orders,
                                NewOrder(Len(orders) + 1, req[p], book_info[p], now))
            /\ result' = Response("create", 200, "ok")

\* the insert also taking the ordered quantity off the book's stock
CreateOrderInsert_Decrement(p) ==
    /\ pc[p] = "checked"
    /\ orders' = Append(orders, NewOrder(Len(orders) + 1, req[p], book_info[p], now))
    /\ books' = IF req[p].book_id \in DOMAIN books
                THEN [books EXCEPT ![req[p].book_id].stock_quantity = @ - req[p].quantity]
                ELSE books
    /\ pc' = [pc EXCEPT ![p] = "idle"]
    /\ req' = [req EXCEPT ![p] = NoReq]
    /\ book_info' = [book_info EXCEPT ![p] = NoBook]
    /\ result' = Response("create", 200, "ok")
    /\ UNCHANGED <<now, users>>

\* main.create_order: the call of crud.create_order and the response
CreateOrderInsert(p) ==
    /\ pc[p] = "checked"
    /\ orders' = Append(orders, NewOrder(Len(orders) + 1, req[p], book_info[p], now))
    /\ pc' = [pc EXCEPT ![p] = "idle"]
    /\ req' = [req EXCEPT ![p] = NoReq]
    /\ book_info' = [book_info EXCEPT ![p] = NoBook]
    /\ result' = Response("create", 200, "ok")
    /\ UNCHANGED <<books, now, users>>

----------------------------------------------------------------------------
(* Order service: PUT /orders/{id}/status and POST /orders/{id}/return *)

\* the UPDATE the session flushes: onupdate stamps updated_at only when a
\* column of the row changed
Flush(old, new) ==
    IF new = old THEN old ELSE [new EXCEPT !.updated_at = now]

\* crud.update_order_status refusing orders in an end state
FindForUpdate_Terminal(order_id, user_id) ==
    IF /\ order_id \in 1..Len(orders)
       /\ (user_id # NULL => orders[order_id].user_id = user_id)
       /\ orders[order_id].status \notin {RETURNED, CANCELLED}
    THEN order_id ELSE 0

\* query.first() of crud.update_order_status: 0 when no row matches
FindForUpdate(order_id, user_id) ==
    IF /\ order_id \in 1..Len(orders)
       /\ (user_id # NULL => orders[order_id].user_id = user_id)
    THEN order_id ELSE 0

\* crud.update_order_status recording a return date when the new status is
\* RETURNED
UpdateStatus_StampsReturn(order_id, user_id, status, notes) ==
    /\ UNCHANGED <<books, now, users, pc, req, book_info>>
    /\ IF status \notin OrderStatus
       THEN /\ result' = Response("update", 422, "validation error")
            /\ UNCHANGED orders
       ELSE LET i == FindForUpdate(order_id, user_id) IN
            IF i = 0
            THEN /\ result' = Response("update", 404, "Order not found")
                 /\ UNCHANGED orders
            ELSE LET old == orders[i]
                     new == [old EXCEPT
                               !.status = status,
                               !.rental_returned_date =
                                   IF status = RETURNED THEN now ELSE @,
                               !.notes = IF notes # NULL /\ notes > 0 THEN notes ELSE @]
                 IN /\ orders' = [orders EXCEPT ![i] = Flush(old, new)]
                    /\ result' = Response("update", 200, "ok")

\* crud.update_order_status with main.update_order_status's response
UpdateStatus(order_id, user_id, status, notes) ==
    /\ UNCHANGED <<books, now, users, pc, req, book_info>>
    /\ IF status \notin OrderStatus
       THEN /\ result' = Response("update", 422, "validation error")
            /\ UNCHANGED orders
       ELSE LET i == FindForUpdate(order_id, user_id) IN
            IF i = 0
            THEN /\ result' = Response("update", 404, "Order not found")
                 /\ UNCHANGED orders
            ELSE LET old == orders[i]
                     new == [old EXCEPT
                               !.status = status,
                               !.notes = IF notes # NULL /\ notes > 0 THEN notes ELSE @]
                 IN /\ orders' = [orders EXCEPT ![i] = Flush(old, new)]
                    /\ result' = Response("update", 200, "ok")

\* crud.return_rental without the order_type filter
FindForReturn_AnyType(order_id, user_id) ==
    IF /\ order_id \in 1..Len(orders)
       /\ orders[order_id].user_id = user_id
       /\ orders[order_id].status \in {CONFIRMED, COMPLETED}
    THEN order_id ELSE 0

\* crud.return_rental with RETURNED among the statuses it accepts
FindForReturn_Again(order_id, user_id) ==
    IF /\ order_id \in 1..Len(orders)
       /\ orders[order_id].user_id = user_id
       /\ orders[order_id].order_type = RENT
       /\ orders[order_id].status \in {CONFIRMED, COMPLETED, RETURNED}
    THEN order_id ELSE 0

\* the filter of crud.return_rental: 0 when no row matches
FindForReturn(order_id, user_id) ==
    IF /\ order_id \in 1..Len(orders)
       /\ orders[order_id].user_id = user_id
       /\ orders[order_id].order_type = RENT
       /\ orders[order_id].status \in {CONFIRMED, COMPLETED}
    THEN order_id ELSE 0

\* crud.return_rental ignoring the supplied return_date
ReturnedDate_AlwaysNow(return_date) == now

\* return_request.return_date or datetime.utcnow()
ReturnedDate(return_date) == IF return_date # NULL THEN return_date ELSE now

\* crud.return_rental also ending the rental period on the day of the return
ReturnRental_ClosesRental(order_id, user_id, return_date, notes) ==
    /\ UNCHANGED <<books, now, users, pc, req, book_info>>
    /\ IF ~ValidNotes(notes)
       THEN /\ result' = Response("return", 422, "validation error")
            /\ UNCHANGED orders
       ELSE LET i == FindForReturn(order_id, user_id) IN
            IF i = 0
            THEN /\ result' = Response("return", 404,
                                       "Rental order not found or cannot be returned")
                 /\ UNCHANGED orders
            ELSE LET old == orders[i]
                     new == [old EXCEPT
                               !.status = RETURNED,
                               !.rental_end_date = ReturnedDate(return_date),
                               !.rental_returned_date = ReturnedDate(return_date),
                               !.notes = IF notes # NULL /\ notes > 0 THEN notes ELSE @]
                 IN /\ orders' = [orders EXCEPT ![i] = Flush(old, new)]
                    /\ result' = Response("return", 200, "ok")

\* crud.return_rental with main.return_rental's response
ReturnRental(order_id, user_id, return_date, notes) ==
    /\ UNCHANGED <<books, now, users, pc, req, book_info>>
    /\ IF ~ValidNotes(notes)
       THEN /\ result' = Response("return", 422, "validation error")
            /\ UNCHANGED orders
       ELSE LET i == FindForReturn(order_id, user_id) IN
            IF i = 0
            THEN /\ result' = Response("return", 404,
                                       "Rental order not found or cannot be returned")
                 /\ UNCHANGED orders
            ELSE LET old == orders[i]
                     new == [old EXCEPT
                               !.status = RETURNED,
                               !.rental_returned_date = ReturnedDate(return_date),
                               !.notes = IF notes # NULL /\ notes > 0 THEN notes ELSE @]
                 IN /\ orders' = [orders EXCEPT ![i] = Flush(old, new)]
                    /\ result' = Response("return", 200, "ok")

\* the clock advances
Tick ==
    /\ now < MaxTime
    /\ now' = now + 1
    /\ UNCHANGED <<orders, books, users, pc, req, book_info, result>>

----------------------------------------------------------------------------
(* Order service: GET /orders/{order_id} and GET /orders *)

\* a query's answer: the rows it returns, in order
Found(rows) == [status |-> 200, detail |-> "ok", rows |-> rows]
NotFound(detail) == [status |-> 404, detail |-> detail, rows |-> <<>>]

\* crud.get_order_by_id without the filter on the user
get_order_by_id_AnyUser(order_id, user_id) ==
    IF order_id \in 1..Len(orders) THEN order_id ELSE 0

\* crud.get_order_by_id: query.first(), 0 when no row matches
get_order_by_id(order_id, user_id) ==
    IF /\ order_id \in 1..Len(orders)
       /\ (user_id # NULL => orders[order_id].user_id = user_id)
    THEN order_id ELSE 0

\* main.get_order
GetOrder(order_id, user_id) ==
    LET i == get_order_by_id(order_id, user_id) IN
    IF i = 0 THEN NotFound("Order not found") ELSE Found(<<orders[i]>>)

\* the ids of the table, in table order: what a query filters
AllIds == [k \in 1..Len(orders) |-> k]

\* ORDER BY key, descending or ascending: row ids[k] comes after the rows
\* that sort before it and after the rows of the same key that precede it
\* in ids
OrderBy(ids, key, descending) ==
    LET n == Len(ids)
        before(i, j) == IF descending THEN key[i] > key[j] ELSE key[i] < key[j]
        rank == [k \in 1..n |->
                    1 + Cardinality({m \in 1..n :
                            \/ before(ids[m], ids[k])
                            \/ ~before(ids[k], ids[m]) /\ m < k})]
    IN [r \in 1..n |-> ids[CHOOSE k \in 1..n : rank[k] = r]]

\* .offset(skip).limit(limit)
OffsetLimit(ids, skip, limit) ==
    SubSeq(ids, skip + 1, IF skip + limit < Len(ids) THEN skip + limit ELSE Len(ids))

\* crud.get_user_orders: the ids of the page and the total
get_user_orders(user_id, skip, limit, order_type, status) ==
    LET Match(i) ==
            /\ orders[i].user_id = user_id
            /\ (order_type # Unset => orders[i].order_type = order_type)
            /\ (status # Unset => orders[i].status = status)
        query == SelectSeq(AllIds, Match)
        created_at == [i \in 1..Len(orders) |-> orders[i].created_at]
    IN [orders |-> OffsetLimit(OrderBy(query, created_at, TRUE), skip, limit),
        total |-> Len(query)]

\* main.get_user_orders skipping page pages instead of page - 1
ListOrders_SkipPage(user_id, page, size, order_type, status) ==
    LET skip == page * size
        r == get_user_orders(user_id, skip, size, order_type, status)
    IN [orders |-> r.orders, total |-> r.total, page |-> page, size |-> size]

\* main.get_user_orders
ListOrders(user_id, page, size, order_type, status) ==
    LET skip == (page - 1) * size
        r == get_user_orders(user_id, skip, size, order_type, status)
    IN [orders |-> r.orders, total |-> r.total, page |-> page, size |-> size]

----------------------------------------------------------------------------
(* Order service: summaries and rental queries *)

\* sum(o.total_amount for o in ...), over ids in order
RECURSIVE SumAmount(_)
SumAmount(ids) ==
    IF ids = <<>> THEN 0
    ELSE orders[Head(ids)].total_amount + SumAmount(Tail(ids))

\* total_purchases counting only the purchases that are not cancelled
IsPurchase_NotCancelled(o) == o.order_type = BUY /\ o.status # CANCELLED

\* the condition of total_purchases
IsPurchase(o) == o.order_type = BUY

\* total_rentals counting only the rentals that are not cancelled
IsRental_NotCancelled(o) == o.order_type = RENT /\ o.status # CANCELLED

\* the condition of total_rentals
IsRental(o) == o.order_type = RENT

\* total_amount_spent over every order, the cancelled ones too
IsSpent_All(o) == TRUE

\* the condition of total_amount_spent
IsSpent(o) == o.status # CANCELLED

\* active_rentals decided by type and status alone
IsActiveRental_StatusOnly(o) ==
    /\ o.order_type = RENT
    /\ o.status \in {CONFIRMED, COMPLETED}

\* the condition of active_rentals
IsActiveRental(o) ==
    /\ o.order_type = RENT
    /\ o.status \in {CONFIRMED, COMPLETED}
    /\ o.rental_returned_date = NULL

\* crud.get_user_order_summary
get_user_order_summary(user_id) ==
    LET OfUser(i) == orders[i].user_id = user_id
        Purchase(i) == IsPurchase(orders[i])
        Rental(i) == IsRental(orders[i])
        Spent(i) == IsSpent(orders[i])
        Active(i) == IsActiveRental(orders[i])
        rows == SelectSeq(AllIds, OfUser)
    IN [total_orders |-> Len(rows),
        total_purchases |-> Len(SelectSeq(rows, Purchase)),
        total_rentals |-> Len(SelectSeq(rows, Rental)),
        total_amount_spent |-> SumAmount(SelectSeq(rows, Spent)),
        active_rentals |-> Len(SelectSeq(rows, Active))]

\* main.get_my_order_summary
Summary(user_id) == get_user_order_summary(user_id)

\* crud.get_active_rentals: ids, ordered by rental_end_date
get_active_rentals(user_id) ==
    LET Match(i) ==
            /\ orders[i].user_id = user_id
            /\ orders[i].order_type = RENT
            /\ orders[i].status \in {CONFIRMED, COMPLETED}
            /\ orders[i].rental_returned_date = NULL
        rental_end_date == [i \in 1..Len(orders) |-> orders[i].rental_end_date]
    IN OrderBy(SelectSeq(AllIds, Match), rental_end_date, FALSE)

\* main.get_active_rentals
ActiveRentals(user_id) == get_active_rentals(user_id)

\* the filter of get_overdue_rentals with a rental overdue on the day it ends
IsOverdue_OnEndDate(o) ==
    /\ o.order_type = RENT
    /\ o.status \in {CONFIRMED, COMPLETED}
    /\ o.rental_returned_date = NULL
    /\ o.rental_end_date # NULL /\ o.rental_end_date <= now

\* the filter of get_overdue_rentals without the test of the return date
IsOverdue_Returned(o) ==
    /\ o.order_type = RENT
    /\ o.status \in {CONFIRMED, COMPLETED}
    /\ o.rental_end_date # NULL /\ o.rental_end_date < now

\* the filter of crud.get_overdue_rentals; a comparison with a NULL
\* rental_end_date selects no row
IsOverdue(o) ==
    /\ o.order_type = RENT
    /\ o.status \in {CONFIRMED, COMPLETED}
    /\ o.rental_returned_date = NULL
    /\ o.rental_end_date # NULL /\ o.rental_end_date < now

\* crud.get_overdue_rentals: ids, ordered by rental_end_date
get_overdue_rentals(user_id) ==
    LET Match(i) ==
            /\ IsOverdue(orders[i])
            /\ (user_id # NULL => orders[i].user_id = user_id)
        rental_end_date == [i \in 1..Len(orders) |-> orders[i].rental_end_date]
    IN OrderBy(SelectSeq(AllIds, Match), rental_end_date, FALSE)

\* main.get_overdue_rentals
OverdueRentals(user_id) == get_overdue_rentals(user_id)

\* total_revenue over every order, the cancelled ones too
IsRevenue_All(o) == TRUE

\* the condition of total_revenue
IsRevenue(o) == o.status # CANCELLED

\* crud.get_admin_summary
get_admin_summary ==
    LET Purchase(i) == orders[i].order_type = BUY
        Rental(i) == orders[i].order_type = RENT
        Revenue(i) == IsRevenue(orders[i])
        Active(i) ==
            /\ orders[i].order_type = RENT
            /\ orders[i].status \in {CONFIRMED, COMPLETED}
            /\ orders[i].rental_returned_date = NULL
        all_orders == AllIds
    IN [total_orders |-> Len(all_orders),
        total_purchases |-> Len(SelectSeq(all_orders, Purchase)),
        total_rentals |-> Len(SelectSeq(all_orders, Rental)),
        total_revenue |-> SumAmount(SelectSeq(all_orders, Revenue)),
        active_rentals |-> Len(SelectSeq(all_orders, Active)),
        overdue_rentals |-> Len(get_overdue_rentals(NULL))]

\* main.get_admin_summary
AdminSummary == get_admin_summary

----------------------------------------------------------------------------
(* Specifications *)

Init ==
    /\ orders = <<>>
    /\ books = (1 :> SeedBook)
    /\ users = <<>>
    /\ now \in 0..MaxTime
    /\ pc = [p \in Procs |-> "idle"]
    /\ req = [p \in Procs |-> NoReq]
    /\ book_info = [p \in Procs |-> NoBook]
    /\ result = NoResult

InFlight == Cardinality({p \in Procs : pc[p] = "checked"})

\* ids a request may name: every existing order and one that does not exist
OrderIds == 1..(Len(orders) + 1)

ReturnDates == {NULL, 5}

\* the query parameters of GET /orders
Pages == 1..3
Sizes == 1..2
TypeFilters == OrderType \cup {Unset}
StatusFilters == OrderStatus \cup {Unset}

OrderCreate(u, b, t, q, d, n) ==
    [user_id |-> u, book_id |-> b, order_type |-> t, quantity |-> q,
     rental_days |-> d, notes |-> n]

\* Lifecycle: one worker, both users and the unfiltered scope, both order
\* types, every status
LifeReqs ==
    {OrderCreate(u, 1, BUY, 1, NULL, NULL) : u \in Users}
    \cup {OrderCreate(u, 1, RENT, 1, 7, NULL) : u \in Users}

Next ==
    \/ /\ Len(orders) + InFlight < MaxOrders
       /\ \E r \in LifeReqs : CreateOrderCheck(1, r, TRUE)
    \/ CreateOrderInsert(1)
    \/ \E id \in OrderIds, u \in Users \cup {NULL}, s \in OrderStatus :
          UpdateStatus(id, u, s, NULL)
    \/ \E id \in OrderIds, u \in Users, d \in ReturnDates :
          ReturnRental(id, u, d, NULL)

Spec == Init /\ [][Next]_vars

\* Clock: one worker and one user, rentals created, updated and returned
\* while the clock moves
ClockReqs == {OrderCreate(1, 1, RENT, 1, 1, NULL), OrderCreate(1, 1, BUY, 1, NULL, NULL)}

NextClock ==
    \/ /\ Len(orders) + InFlight < MaxOrders
       /\ \E r \in ClockReqs : CreateOrderCheck(1, r, TRUE)
    \/ CreateOrderInsert(1)
    \/ \E id \in OrderIds, s \in OrderStatus : UpdateStatus(id, 1, s, NULL)
    \/ \E id \in OrderIds, d \in ReturnDates : ReturnRental(id, 1, d, NULL)
    \/ Tick

SpecClock == Init /\ [][NextClock]_vars

\* Pricing: one worker and one user, catalog prices that change between
\* lookups, both order types with differing quantities and rental lengths
PriceUpdates ==
    {[price |-> 1000, rent_price |-> 150], [price |-> 2999, rent_price |-> 399]}

PricingReqs ==
    {OrderCreate(1, 1, BUY, q, NULL, NULL) : q \in 1..2}
    \cup {OrderCreate(1, 1, RENT, 2, 7, NULL), OrderCreate(1, 1, RENT, 1, 1, NULL)}

NextPricing ==
    \/ /\ Len(orders) + InFlight < MaxOrders
       /\ \E r \in PricingReqs : CreateOrderCheck(1, r, TRUE)
    \/ CreateOrderInsert(1)
    \/ \E id \in OrderIds, s \in OrderStatus : UpdateStatus(id, 1, s, NULL)
    \/ \E id \in OrderIds : ReturnRental(id, 1, NULL, NULL)
    \/ \E u \in PriceUpdates : UpdateBook(1, u)

SpecPricing == Init /\ [][NextPricing]_vars

\* Stock: two workers inside POST /orders at once, a catalog whose stock and
\* availability change, valid and invalid request bodies
StockUpdates ==
    {[stock_quantity |-> s] : s \in 0..MaxStock} \cup {[available |-> a] : a \in BOOLEAN}

StockReqs ==
    {OrderCreate(1, b, t, q, d, NULL) :
        b \in BookIds, t \in OrderType, q \in 1..2, d \in {NULL, 7}}

NextStock ==
    \/ /\ Len(orders) + InFlight < MaxOrdersConc
       /\ \E p \in Procs, r \in StockReqs, net \in BOOLEAN : CreateOrderCheck(p, r, net)
    \/ \E p \in Procs : CreateOrderInsert(p)
    \/ \E u \in StockUpdates : UpdateBook(1, u)

SpecStock == Init /\ [][NextStock]_vars

\* Snapshot: one worker and one user, a catalog whose title, author and
\* isbn are edited and whose book is deleted while orders are created,
\* updated and returned
DetailUpdates ==
    {[title |-> "Second Edition"],
     [author |-> "Another Author", isbn |-> "978-0000000002"],
     [title |-> "Test Book 1", author |-> "Test Author", isbn |-> "978-0000000001"]}

SnapshotReqs == {OrderCreate(1, 1, BUY, 1, NULL, NULL), OrderCreate(1, 1, RENT, 1, 7, NULL)}

NextSnapshot ==
    \/ /\ Len(orders) + InFlight < MaxOrders
       /\ \E r \in SnapshotReqs : CreateOrderCheck(1, r, TRUE)
    \/ CreateOrderInsert(1)
    \/ \E id \in OrderIds, s \in {CANCELLED, COMPLETED} : UpdateStatus(id, 1, s, NULL)
    \/ \E id \in OrderIds : ReturnRental(id, 1, NULL, NULL)
    \/ \E u \in DetailUpdates : UpdateBook(1, u)
    \/ DeleteBook(1)

SpecSnapshot == Init /\ [][NextSnapshot]_vars

\* Summary: one worker and one user, a catalog of two books priced so that
\* orders of 10.00, 20.00, 15.00 and 100.00 can be placed, orders cancelled
\* and confirmed again
CheapBook == [SeedBook EXCEPT !.price = 1000, !.rent_price = 1500]

DearBook ==
    [SeedBook EXCEPT !.title = "Test Book 2", !.isbn = "978-0000000002",
                     !.price = 10000, !.rent_price = 10000]

InitSummary ==
    /\ orders = <<>>
    /\ books = (1 :> CheapBook) @@ (2 :> DearBook)
    /\ users = <<>>
    /\ now = 0
    /\ pc = [p \in Procs |-> "idle"]
    /\ req = [p \in Procs |-> NoReq]
    /\ book_info = [p \in Procs |-> NoBook]
    /\ result = NoResult

SummaryReqs ==
    {OrderCreate(1, 1, BUY, q, NULL, NULL) : q \in 1..2}
    \cup {OrderCreate(1, b, RENT, 1, 1, NULL) : b \in BookIds}
    \cup {OrderCreate(1, 2, BUY, 1, NULL, NULL)}

NextSummary ==
    \/ /\ Len(orders) + InFlight < MaxOrdersMany
       /\ \E r \in SummaryReqs : CreateOrderCheck(1, r, TRUE)
    \/ CreateOrderInsert(1)
    \/ \E id \in 1..Len(orders), s \in {CANCELLED, CONFIRMED} : UpdateStatus(id, 1, s, NULL)

SpecSummary == InitSummary /\ [][NextSummary]_vars

\* Totals: one worker and two users, orders of both types and differing
\* amounts moved through every status and returned
TotalsReqs ==
    {OrderCreate(1, 1, BUY, 1, NULL, NULL), OrderCreate(1, 1, RENT, 1, 1, NULL),
     OrderCreate(2, 2, BUY, 1, NULL, NULL)}

NextTotals ==
    \/ /\ Len(orders) + InFlight < MaxOrdersConc
       /\ \E r \in TotalsReqs : CreateOrderCheck(1, r, TRUE)
    \/ CreateOrderInsert(1)
    \/ \E id \in 1..Len(orders), u \in Users, s \in OrderStatus : UpdateStatus(id, u, s, NULL)
    \/ \E id \in 1..Len(orders), u \in Users : ReturnRental(id, u, NULL, NULL)

SpecTotals == InitSummary /\ [][NextTotals]_vars

\* Overdue: one worker and two users, rentals and purchases created,
\* updated and returned by their owners while the clock moves past the end
\* of the rentals
OverdueReqs ==
    {OrderCreate(u, 1, RENT, 1, 1, NULL) : u \in Users}
    \cup {OrderCreate(1, 1, BUY, 1, NULL, NULL)}

NextOverdue ==
    \/ /\ Len(orders) + InFlight < MaxOrders
       /\ \E r \in OverdueReqs : CreateOrderCheck(1, r, TRUE)
    \/ CreateOrderInsert(1)
    \/ \E id \in 1..Len(orders), s \in {CONFIRMED, COMPLETED, CANCELLED} :
          UpdateStatus(id, orders[id].user_id, s, NULL)
    \/ \E id \in 1..Len(orders) : ReturnRental(id, orders[id].user_id, NULL, NULL)
    \/ Tick

SpecOverdue == InitSummary /\ [][NextOverdue]_vars

\* Listing: one worker and two users, orders of both types placed while
\* the clock moves, the first order cancelled by its owner
ListReqs ==
    {OrderCreate(1, 1, BUY, 1, NULL, NULL), OrderCreate(1, 1, RENT, 1, 1, NULL),
     OrderCreate(2, 1, BUY, 1, NULL, NULL)}

NextList ==
    \/ /\ Len(orders) + InFlight < MaxOrdersList
       /\ \E r \in ListReqs : CreateOrderCheck(1, r, TRUE)
    \/ CreateOrderInsert(1)
    \/ Len(orders) > 0 /\ UpdateStatus(1, orders[1].user_id, CANCELLED, NULL)
    \/ Tick

SpecList == InitSummary /\ [][NextList]_vars

\* Notes: one worker and one user, a rental created, updated and returned
\* with notes that are absent, empty, of the greatest length OrderCreate
\* accepts and one character longer
NoteLens == {NULL, 0, MaxNotesLen, MaxNotesLen + 1}

NotesReqs == {OrderCreate(1, 1, RENT, 1, 7, n) : n \in NoteLens}

NextNotes ==
    \/ /\ Len(orders) + InFlight < MaxOrders
       /\ \E r \in NotesReqs : CreateOrderCheck(1, r, TRUE)
    \/ CreateOrderInsert(1)
    \/ \E id \in OrderIds, s \in {CONFIRMED, COMPLETED, CANCELLED}, n \in NoteLens :
          UpdateStatus(id, 1, s, n)
    \/ \E id \in OrderIds, n \in NoteLens : ReturnRental(id, 1, NULL, n)

SpecNotes == InitSummary /\ [][NextNotes]_vars

\* Admin: one worker and two users, rentals and purchases of differing
\* amounts placed and cancelled by their owners while the clock moves past
\* the end of the rentals
AdminReqs ==
    {OrderCreate(u, 1, RENT, 1, 1, NULL) : u \in Users}
    \cup {OrderCreate(2, 2, BUY, 1, NULL, NULL)}

NextAdmin ==
    \/ /\ Len(orders) + InFlight < MaxOrdersConc
       /\ \E r \in AdminReqs : CreateOrderCheck(1, r, TRUE)
    \/ CreateOrderInsert(1)
    \/ \E id \in 1..Len(orders) : UpdateStatus(id, orders[id].user_id, CANCELLED, NULL)
    \/ Tick

SpecAdmin == InitSummary /\ [][NextAdmin]_vars

\* Catalog: books created, imported, updated and deleted over a table of two
\* books; the requests name no ISBN, the empty ISBN, or one of two ISBNs
Isbns == {NoIsbn, "", "978-0000000001", "978-0000000002"}

BookCreates == {[SeedBook EXCEPT !.isbn = i] : i \in Isbns}

IsbnUpdates == {[isbn |-> i] : i \in Isbns}

NextCatalog ==
    \/ \E b \in BookCreates : CreateBook(b)
    \/ \E b \in BookCreates : ImportBook(b)
    \/ \E id \in BookIds, u \in IsbnUpdates : UpdateBook(id, u)
    \/ \E id \in BookIds : DeleteBook(id)

\* Sequential: one worker and one user ordering a book with 5 copies in
\* stock, one request at a time, nobody editing the catalog
SequentialReqs ==
    {OrderCreate(1, 1, BUY, q, NULL, NULL) : q \in {3, 5}}
    \cup {OrderCreate(1, 1, RENT, 3, 7, NULL)}

NextSequential ==
    \/ /\ Len(orders) + InFlight < MaxOrdersConc
       /\ \E r \in SequentialReqs : CreateOrderCheck(1, r, TRUE)
    \/ CreateOrderInsert(1)
    \/ \E id \in OrderIds, s \in {COMPLETED, CANCELLED} : UpdateStatus(id, 1, s, NULL)
    \/ \E id \in OrderIds : ReturnRental(id, 1, NULL, NULL)

SpecSequential == Init /\ [][NextSequential]_vars

SpecCatalog == InitSummary /\ [][NextCatalog]_vars

\* Registration: users registered, as admin or not, under three emails
Emails == {"test@example.com", "duplicate@example.com", "admin@example.com"}

UserCreates ==
    {[email |-> e, password |-> "testpassword", full_name |-> "Test User",
      is_admin |-> a] : e \in Emails, a \in BOOLEAN}

NextRegister == \E u \in UserCreates : register_user(u)

SpecRegister == Init /\ [][NextRegister]_vars

----------------------------------------------------------------------------
(* Properties *)

Order(i) == orders[i]
Ids == 1..Len(orders)
Created == Len(orders') = Len(orders) + 1
Newest == orders'[Len(orders')]

\* the worker whose insert a step is
Inserting(p) == pc[p] = "checked" /\ pc'[p] = "idle"

\* C1: every PURCHASE order has total_amount = unit_price * quantity and no
\* rental field set, in every reachable state; the unit_price of a new
\* PURCHASE order is the price of the catalog row the lookup of its request
\* read.
C1_PurchaseTotal ==
    /\ [](\A i \in Ids : Order(i).order_type = BUY =>
            /\ Order(i).total_amount = Order(i).unit_price * Order(i).quantity
            /\ Order(i).rental_days = NULL
            /\ Order(i).rental_start_date = NULL
            /\ Order(i).rental_end_date = NULL
            /\ Order(i).rental_returned_date = NULL)
    /\ [][\A p \in Procs : pc[p] = "idle" /\ pc'[p] = "checked" =>
            book_info'[p] = books[req'[p].book_id]]_vars
    /\ [][\A p \in Procs : Inserting(p) /\ req[p].order_type = BUY =>
            /\ Created
            /\ Newest.order_type = BUY
            /\ Newest.quantity = req[p].quantity
            /\ Newest.unit_price = book_info[p].price]_vars

\* a PURCHASE order of two copies, bought before the catalog price changed
\* and moved out of CONFIRMED since
C1_Witness ==
    \E i \in Ids :
        /\ Order(i).order_type = BUY
        /\ Order(i).quantity = 2
        /\ Order(i).status # CONFIRMED
        /\ Order(i).unit_price # books[Order(i).book_id].price

\* C2: every RENTAL order has total_amount = unit_price * rental_days *
\* quantity and rental_end_date = rental_start_date + rental_days, in every
\* reachable state (rent_price 3.99, 7 days, 2 copies: 55.86); the
\* unit_price of a new RENTAL order is the rent_price the lookup read.
C2_RentalTotal ==
    /\ [](\A i \in Ids : Order(i).order_type = RENT =>
            /\ Order(i).rental_days # NULL
            /\ Order(i).total_amount =
                  Order(i).unit_price * Order(i).rental_days * Order(i).quantity
            /\ Order(i).rental_end_date =
                  Order(i).rental_start_date + Order(i).rental_days
            /\ (Order(i).unit_price = 399 /\ Order(i).rental_days = 7
                   /\ Order(i).quantity = 2 => Order(i).total_amount = 5586))
    /\ [][\A p \in Procs : Inserting(p) /\ req[p].order_type = RENT =>
            /\ Created
            /\ Newest.order_type = RENT
            /\ Newest.quantity = req[p].quantity
            /\ Newest.rental_days = req[p].rental_days
            /\ Newest.rental_start_date = now
            /\ Newest.unit_price = book_info[p].rent_price]_vars

\* the 3.99 x 7 x 2 rental, returned, after the catalog's rent_price changed
C2_Witness ==
    \E i \in Ids :
        /\ Order(i).order_type = RENT
        /\ Order(i).unit_price = 399
        /\ Order(i).rental_days = 7
        /\ Order(i).quantity = 2
        /\ Order(i).total_amount = 5586
        /\ Order(i).status = RETURNED
        /\ Order(i).rental_returned_date # NULL
        /\ books[Order(i).book_id].rent_price # 399

\* the lookup of a valid request r answers with a book whose stock is short
StockShort(r) ==
    /\ ValidOrderCreate(r)
    /\ r.book_id \in DOMAIN books
    /\ books[r.book_id].stock_quantity < r.quantity

InsufficientStock == Response("create", 400, "Not enough stock")

\* C3 as stated: a CreateOrder whose lookup reports stock_quantity <
\* quantity fails with InsufficientStock and persists nothing.
C3_AsStated ==
    [][\A p \in Procs, r \in StockReqs :
          CreateOrderCheck(p, r, TRUE) /\ StockShort(r) =>
              result' = InsufficientStock /\ orders' = orders]_vars

\* C3, amended: a CreateOrder whose lookup reports the book available and
\* stock_quantity < quantity fails with InsufficientStock, persists no
\* order and leaves no insert pending.
C3_InsufficientStock ==
    [][\A p \in Procs, r \in StockReqs :
          CreateOrderCheck(p, r, TRUE) /\ StockShort(r)
             /\ books[r.book_id].available =>
                 /\ result' = InsufficientStock
                 /\ orders' = orders
                 /\ pc' = pc]_vars

\* InsufficientStock was answered for a book that is on the shelf, and an
\* order is persisted
C3_Witness ==
    /\ result = InsufficientStock
    /\ books[1].available
    /\ books[1].stock_quantity = 1
    /\ Len(orders) > 0

\* rental_days present exactly when the order type is RENTAL
DaysMatchType(r) == (r.order_type = RENT) <=> (r.rental_days # NULL)

\* C4: a CreateOrder whose rental_days presence does not match its type
\* (RENTAL without, PURCHASE with) is rejected with InvalidRequest (422),
\* persists no order and leaves no insert pending.
C4_RentalDaysMismatch ==
    [][\A p \in Procs, r \in StockReqs, net \in BOOLEAN :
          CreateOrderCheck(p, r, net) /\ ~DaysMatchType(r) =>
              /\ result' = Response("create", 422, "validation error")
              /\ orders' = orders
              /\ pc' = pc]_vars

\* a request was refused as invalid while the book was available and in stock
C4_Witness ==
    /\ result = Response("create", 422, "validation error")
    /\ books[1].available
    /\ books[1].stock_quantity >= 2
    /\ \A p \in Procs : pc[p] = "idle"

\* C5: nothing between the stock check and the insert looks at the stock
\* or at the orders again: a request that passed the check persists its
\* order, whatever was persisted for the book in between, so two requests
\* inside the window at once both persist and oversell the book.
C5_CheckThenInsert ==
    [][\A p \in Procs : Inserting(p) =>
          /\ Created
          /\ Newest.book_id = req[p].book_id
          /\ Newest.quantity = req[p].quantity
          /\ Newest.user_id = req[p].user_id]_vars

\* two requests for the same book past the stock check at once, each within
\* the stock both lookups reported, together beyond it
C5_Witness ==
    /\ pc[1] = "checked" /\ pc[2] = "checked"
    /\ req[1].book_id = req[2].book_id
    /\ book_info[1].stock_quantity = book_info[2].stock_quantity
    /\ req[1].quantity <= book_info[1].stock_quantity
    /\ req[2].quantity <= book_info[2].stock_quantity
    /\ req[1].quantity + req[2].quantity > book_info[1].stock_quantity

\* the order exists, is user_id's, is a RENTAL and is CONFIRMED or COMPLETED
Returnable(order_id, user_id) ==
    /\ order_id \in Ids
    /\ Order(order_id).user_id = user_id
    /\ Order(order_id).order_type = RENT
    /\ Order(order_id).status \in {CONFIRMED, COMPLETED}

NotReturnable == Response("return", 404, "Rental order not found or cannot be returned")

\* C6: ReturnRental fails with NotFound and changes no order when the order
\* does not exist, is another user's, is a PURCHASE or is in a status
\* outside CONFIRMED, COMPLETED; it succeeds in every other case.
C6_ReturnPrecondition ==
    [][\A id \in OrderIds, u \in Users, d \in ReturnDates :
          ReturnRental(id, u, d, NULL) =>
              IF Returnable(id, u)
              THEN result' = Response("return", 200, "ok")
              ELSE result' = NotReturnable /\ orders' = orders]_vars

\* a return was refused while the only order is a PURCHASE in an eligible
\* status
C6_Witness ==
    /\ result = NotReturnable
    /\ Len(orders) > 0
    /\ \A i \in Ids : Order(i).order_type = BUY /\ Order(i).status = COMPLETED

\* C7: a successful ReturnRental leaves the order RETURNED with
\* rental_returned_date the supplied return_date, or the current time when
\* none was supplied.
C7_ReturnEffect ==
    [][\A id \in OrderIds, u \in Users, d \in ReturnDates :
          ReturnRental(id, u, d, NULL) /\ Returnable(id, u) =>
              /\ result' = Response("return", 200, "ok")
              /\ orders'[id].status = RETURNED
              /\ orders'[id].rental_returned_date = (IF d = NULL THEN now ELSE d)]_vars

\* a rental returned without a return_date, after the day it started
C7_Witness ==
    /\ result = Response("return", 200, "ok")
    /\ \E i \in Ids :
          /\ Order(i).status = RETURNED
          /\ Order(i).rental_returned_date = now
          /\ Order(i).rental_start_date < now

\* C8: a second ReturnRental by the owner on the rental a first one just
\* returned fails with NotFound and leaves every order, so its RETURNED
\* status and its rental_returned_date, as the first call set them.
C8_ReturnTwice ==
    [][\A id \in Ids, d \in ReturnDates :
          /\ result = Response("return", 200, "ok")
          /\ Order(id).status = RETURNED
          /\ ReturnRental(id, Order(id).user_id, d, NULL)
          => result' = NotReturnable /\ orders' = orders]_vars

\* a return refused although every order is a returned rental stamped at
\* the current time
C8_Witness ==
    /\ result = NotReturnable
    /\ Len(orders) > 0
    /\ \A i \in Ids :
          /\ Order(i).order_type = RENT
          /\ Order(i).status = RETURNED
          /\ Order(i).rental_returned_date # NULL
          /\ Order(i).updated_at = now

\* C9: the order a CreateOrder persists is CONFIRMED in the state right
\* after it, never PENDING or anything else.
C9_CreatedConfirmed ==
    [][Created => Newest.status = CONFIRMED /\ Newest.id = Len(orders')]_vars

\* the last response is a successful create and the newest order is
\* CONFIRMED
C9_Witness ==
    /\ result = Response("create", 200, "ok")
    /\ Len(orders) > 0
    /\ Order(Len(orders)).status = CONFIRMED
    /\ Order(Len(orders)).updated_at = Order(Len(orders)).created_at

\* C10: UpdateStatus by the owner, or with no user filter, on an existing
\* order in any status s with any new status t succeeds and leaves the
\* order in t.
C10_AnyTransition ==
    [][\A id \in Ids, s \in OrderStatus :
          \A u \in {Order(id).user_id, NULL} :
              UpdateStatus(id, u, s, NULL) =>
                  /\ result' = Response("update", 200, "ok")
                  /\ orders'[id].status = s]_vars

\* an order with a recorded return that has been moved out of RETURNED
C10_Witness ==
    /\ result = Response("update", 200, "ok")
    /\ \E i \in Ids :
          /\ Order(i).rental_returned_date # NULL
          /\ Order(i).status = PENDING

\* the order exists and is not user_id's
Foreign(order_id, user_id) ==
    order_id \in Ids /\ Order(order_id).user_id # user_id

\* C11: GetOrder, UpdateStatus and ReturnRental by a user on another user's
\* order answer NotFound, as they do for an id that does not exist, and
\* change no order; no page of the user's ListOrders holds the order.
C11_OwnershipScoping ==
    /\ [](\A id \in Ids, u \in Users : Foreign(id, u) =>
            /\ GetOrder(id, u) = NotFound("Order not found")
            /\ GetOrder(id, u) = GetOrder(Len(orders) + 1, u)
            /\ \A page \in Pages, size \in Sizes, t \in TypeFilters, s \in StatusFilters :
                  LET listed == ListOrders(u, page, size, t, s).orders
                  IN \A k \in DOMAIN listed : listed[k] # id)
    /\ [][\A id \in Ids, u \in Users, s \in OrderStatus :
            /\ Foreign(id, u) /\ UpdateStatus(id, u, s, NULL) =>
                  result' = Response("update", 404, "Order not found") /\ orders' = orders
            /\ UpdateStatus(Len(orders) + 1, u, s, NULL) =>
                  result' = Response("update", 404, "Order not found") /\ orders' = orders]_vars
    /\ [][\A id \in Ids, u \in Users, d \in ReturnDates :
            /\ Foreign(id, u) /\ ReturnRental(id, u, d, NULL) =>
                  result' = NotReturnable /\ orders' = orders
            /\ ReturnRental(Len(orders) + 1, u, d, NULL) =>
                  result' = NotReturnable /\ orders' = orders]_vars

\* user 1 was answered NotFound by UpdateStatus while every order is an
\* eligible rental of user 2, which user 1 can neither read nor list
C11_Witness ==
    /\ result = Response("update", 404, "Order not found")
    /\ Len(orders) > 0
    /\ \A i \in Ids :
          /\ Order(i).user_id = 2
          /\ Order(i).order_type = RENT
          /\ Order(i).status = CONFIRMED
    /\ GetOrder(1, 1).status = 404
    /\ GetOrder(1, 2).status = 200
    /\ ListOrders(1, 1, 2, Unset, Unset).total = 0
    /\ ListOrders(2, 1, 2, Unset, Unset).total = Len(orders)

\* C12: the book_title, book_author and book_isbn of a new order are those
\* of the book the lookup of its request returned, and no later step, of
\* the catalog or of the order service, changes them.
C12_BookSnapshot ==
    /\ [][\A p \in Procs : Inserting(p) =>
            /\ Created
            /\ Newest.book_title = book_info[p].title
            /\ Newest.book_author = book_info[p].author
            /\ Newest.book_isbn = book_info[p].isbn]_vars
    /\ [][\A i \in Ids :
            /\ i <= Len(orders')
            /\ orders'[i].book_title = Order(i).book_title
            /\ orders'[i].book_author = Order(i).book_author
            /\ orders'[i].book_isbn = Order(i).book_isbn]_vars

\* a returned rental that still carries the details its lookup returned,
\* after the catalog changed all three
C12_Witness ==
    \E i \in Ids :
        /\ Order(i).status = RETURNED
        /\ Order(i).book_title = "Test Book 1"
        /\ Order(i).book_author = "Test Author"
        /\ Order(i).book_isbn = "978-0000000001"
        /\ Order(i).book_id \in DOMAIN books
        /\ books[Order(i).book_id].title = "Second Edition"
        /\ books[Order(i).book_id].author = "Another Author"
        /\ books[Order(i).book_id].isbn = "978-0000000002"

\* the ids of user_id's orders
Mine(user_id) == {i \in Ids : Order(i).user_id = user_id}

\* user_id holds exactly 2 purchase orders (10.00 and 20.00), 1 rental order
\* (15.00), none of them cancelled, and 1 cancelled order of type t (100.00)
Holds4(user_id, t) ==
    LET live == {i \in Mine(user_id) : Order(i).status # CANCELLED}
        dead == Mine(user_id) \ live
    IN /\ Cardinality(live) = 3
       /\ Cardinality(dead) = 1
       /\ \E a, b, c \in live :
             /\ Order(a).order_type = BUY /\ Order(a).total_amount = 1000
             /\ Order(b).order_type = BUY /\ Order(b).total_amount = 2000
             /\ Order(c).order_type = RENT /\ Order(c).total_amount = 1500
       /\ \A d \in dead : Order(d).order_type = t /\ Order(d).total_amount = 10000

\* C13 as stated: for that user Summary returns total_orders = 4,
\* total_purchases = 2, total_rentals = 1 and total_amount_spent = 45.00,
\* whichever type the cancelled order has.
C13_AsStated ==
    \A u \in Users, t \in OrderType : Holds4(u, t) =>
        /\ Summary(u).total_orders = 4
        /\ Summary(u).total_purchases = 2
        /\ Summary(u).total_rentals = 1
        /\ Summary(u).total_amount_spent = 4500

\* C13, amended: for that user Summary returns total_orders = 4 and
\* total_amount_spent = 45.00; the cancelled order counts in the total of
\* its type, so total_purchases = 3 and total_rentals = 1 when it is a
\* purchase, total_purchases = 2 and total_rentals = 2 when it is a rental.
C13_SummaryOfFour ==
    \A u \in Users, t \in OrderType : Holds4(u, t) =>
        /\ Summary(u).total_orders = 4
        /\ Summary(u).total_amount_spent = 4500
        /\ Summary(u).total_purchases = (IF t = BUY THEN 3 ELSE 2)
        /\ Summary(u).total_rentals = (IF t = RENT THEN 2 ELSE 1)

\* user 1 holds the four orders, the cancelled one a rental placed first
C13_Witness ==
    /\ Holds4(1, RENT)
    /\ Order(1).status = CANCELLED
    /\ Summary(1).total_rentals = 2

\* the sum of total_amount over user_id's orders in PENDING, CONFIRMED,
\* COMPLETED or RETURNED
SpentBy(user_id) ==
    LET acc[n \in 0..Len(orders)] ==
            IF n = 0 THEN 0
            ELSE acc[n - 1] +
                 (IF /\ orders[n].user_id = user_id
                     /\ orders[n].status \in {PENDING, CONFIRMED, COMPLETED, RETURNED}
                  THEN orders[n].total_amount ELSE 0)
    IN acc[Len(orders)]

\* C14: in every state Summary(user).total_amount_spent is the sum of
\* total_amount over the user's orders that are not CANCELLED, PENDING and
\* RETURNED ones included; a step that moves an order into CANCELLED takes
\* its amount off its owner's total and a step that moves it out of
\* CANCELLED puts it back.
C14_AmountSpent ==
    /\ [](\A u \in Users : Summary(u).total_amount_spent = SpentBy(u))
    /\ [][\A id \in Ids :
            LET u == Order(id).user_id
                before == Summary(u).total_amount_spent
                after == Summary(u).total_amount_spent'
            IN /\ Order(id).status # CANCELLED /\ orders'[id].status = CANCELLED =>
                     after = before - Order(id).total_amount
               /\ Order(id).status = CANCELLED /\ orders'[id].status # CANCELLED =>
                     after = before + Order(id).total_amount]_vars

\* user 1 holds a cancelled purchase and a returned rental after a status
\* update: only the rental's amount is spent
C14_Witness ==
    /\ result = Response("update", 200, "ok")
    /\ \E i, j \in Mine(1) :
          /\ Order(i).order_type = BUY /\ Order(i).status = CANCELLED
          /\ Order(j).order_type = RENT /\ Order(j).status = RETURNED
          /\ Order(j).rental_returned_date # NULL
          /\ Cardinality(Mine(1)) = 2
          /\ Summary(1).total_amount_spent = Order(j).total_amount
          /\ Order(i).total_amount > 0

\* the ids a list of ids holds
Listed(ids) == {ids[k] : k \in DOMAIN ids}

\* user_id's RENTAL orders in CONFIRMED or COMPLETED with no return recorded
Unreturned(user_id) ==
    {i \in Mine(user_id) :
        /\ Order(i).order_type = RENT
        /\ Order(i).status \in {CONFIRMED, COMPLETED}
        /\ Order(i).rental_returned_date = NULL}

\* C15: in every state Summary(user).active_rentals is the number of the
\* user's RENTAL orders in CONFIRMED or COMPLETED with rental_returned_date
\* null, and the active-rentals query returns exactly those orders, each
\* once.
C15_ActiveRentals ==
    \A u \in Users :
        /\ Summary(u).active_rentals = Cardinality(Unreturned(u))
        /\ Len(ActiveRentals(u)) = Summary(u).active_rentals
        /\ Listed(ActiveRentals(u)) = Unreturned(u)

\* user 1 holds a rental that was returned and confirmed again and a
\* completed rental never returned: one active rental
C15_Witness ==
    \E i, j \in Mine(1) :
        /\ Order(i).order_type = RENT /\ Order(i).status = CONFIRMED
        /\ Order(i).rental_returned_date # NULL
        /\ Order(j).order_type = RENT /\ Order(j).status = COMPLETED
        /\ Order(j).rental_returned_date = NULL
        /\ Summary(1).active_rentals = 1
        /\ ActiveRentals(1) = <<j>>

\* the RENTAL orders in CONFIRMED or COMPLETED, not returned, whose
\* rental_end_date is before the current time: user_id's, or everybody's
\* when user_id is NULL
PastDue(user_id) ==
    {i \in Ids :
        /\ user_id = NULL \/ Order(i).user_id = user_id
        /\ Order(i).order_type = RENT
        /\ Order(i).status = CONFIRMED \/ Order(i).status = COMPLETED
        /\ Order(i).rental_returned_date = NULL
        /\ Order(i).rental_end_date < now}

\* C16: OverdueRentals returns exactly the orders, of the given user or of
\* all users when none is given, that are RENTAL, CONFIRMED or COMPLETED,
\* not returned and past their rental_end_date, each once.
C16_OverdueRentals ==
    \A u \in Users \cup {NULL} :
        /\ Listed(OverdueRentals(u)) = PastDue(u)
        /\ Len(OverdueRentals(u)) = Cardinality(PastDue(u))

\* a completed rental of user 2, a day past its end and not returned: in
\* user 2's overdue list and the global one, not in user 1's
C16_Witness ==
    \E i \in Ids :
        /\ Order(i).user_id = 2
        /\ Order(i).status = COMPLETED
        /\ Order(i).rental_returned_date = NULL
        /\ Order(i).rental_end_date = now - 1
        /\ OverdueRentals(2) = <<i>>
        /\ OverdueRentals(NULL) = <<i>>
        /\ OverdueRentals(1) = <<>>

\* C17: a successful ReturnRental records a return date on the order; no
\* later step removes it, and an order with a return date is in no overdue
\* list and in no active-rentals list, whatever its status and however
\* late it is.
C17_ReturnedStaysOut ==
    /\ [](\A i \in Ids : Order(i).rental_returned_date # NULL =>
            \A u \in Users \cup {NULL} :
                /\ i \notin Listed(OverdueRentals(u))
                /\ u # NULL => i \notin Listed(ActiveRentals(u)))
    /\ [][\A i \in Ids :
            /\ ReturnRental(i, Order(i).user_id, NULL, NULL) /\ Returnable(i, Order(i).user_id)
                  => orders'[i].rental_returned_date # NULL
            /\ Order(i).rental_returned_date # NULL
                  => orders'[i].rental_returned_date # NULL]_vars

\* a rental returned on time and confirmed again by a later UpdateStatus,
\* now past its end date
C17_Witness ==
    /\ result = Response("update", 200, "ok")
    /\ \E i \in Ids :
          /\ Order(i).order_type = RENT
          /\ Order(i).status = CONFIRMED
          /\ Order(i).rental_returned_date # NULL
          /\ Order(i).rental_returned_date <= Order(i).rental_end_date
          /\ Order(i).rental_end_date < now
          /\ OverdueRentals(Order(i).user_id) = <<>>
          /\ ActiveRentals(Order(i).user_id) = <<>>

\* user_id's orders that pass the filters
Matching(user_id, order_type, status) ==
    {i \in Mine(user_id) :
        /\ order_type = Unset \/ Order(i).order_type = order_type
        /\ status = Unset \/ Order(i).status = status}

\* the number of orders of page number page when n orders match
PageLen(n, page, size) ==
    LET left == n - (page - 1) * size
    IN IF left <= 0 THEN 0 ELSE IF left < size THEN left ELSE size

\* C18: for every user, filter and size, every page of ListOrders reports
\* as total the number of the user's orders that pass the filters; page
\* number page holds min(size, what is left after the pages before it)
\* orders, none twice, all of them matching, newest first, none newer than
\* an order of an earlier page; the pages are pairwise disjoint and together
\* hold every matching order, and a page past the end is empty.
C18_Pagination ==
    \A u \in Users, t \in TypeFilters, s \in {Unset, CONFIRMED, CANCELLED}, size \in Sizes :
        LET all == Matching(u, t, s)
            n == Cardinality(all)
            last == Len(orders) + 1
            got == {<<page, ListOrders(u, page, size, t, s)>> : page \in 1..last}
            at(i) == Order(i).created_at
        IN /\ \A g \in got :
                LET page == g[1]
                    ids == g[2].orders
                IN /\ g[2].total = n
                   /\ Len(ids) = PageLen(n, page, size)
                   /\ Cardinality(Listed(ids)) = Len(ids)
                   /\ Listed(ids) \subseteq all
                   /\ \A j, k \in DOMAIN ids : j < k => at(ids[j]) >= at(ids[k])
                   /\ page = last => ids = <<>>
           /\ \A g, h \in got : g[1] < h[1] =>
                /\ Listed(g[2].orders) \cap Listed(h[2].orders) = {}
                /\ \A i \in Listed(g[2].orders), j \in Listed(h[2].orders) : at(i) >= at(j)
           /\ UNION {Listed(g[2].orders) : g \in got} = all

\* user 1 holds three orders placed on three different days, the oldest
\* one cancelled: size 2 gives a page of the two newest, a page of the
\* oldest and an empty third page
C18_Witness ==
    /\ Cardinality(Mine(1)) = 3
    /\ \A i, j \in Mine(1) : i < j => Order(i).created_at < Order(j).created_at
    /\ \E i \in Mine(1) : Order(i).status = CANCELLED
    /\ Len(ListOrders(1, 1, 2, Unset, Unset).orders) = 2
    /\ Len(ListOrders(1, 2, 2, Unset, Unset).orders) = 1
    /\ ListOrders(1, 3, 2, Unset, Unset).orders = <<>>
    /\ ListOrders(1, 2, 2, Unset, Unset).total = 3
    /\ ListOrders(1, 1, 2, Unset, CANCELLED).total = 1

ServiceUnavailable == Response("create", 503, "Catalog service unavailable")

\* C19: a valid CreateOrder whose one catalog request fails, times out or
\* is answered with a status other than 200 and 404 answers
\* ServiceUnavailable at once: no order is persisted, no insert is left
\* pending and no book data is kept for the request.
C19_LookupFailure ==
    [][\A p \in Procs, r \in StockReqs :
          CreateOrderCheck(p, r, FALSE) /\ ValidOrderCreate(r) =>
              /\ result' = ServiceUnavailable
              /\ orders' = orders
              /\ pc' = pc
              /\ book_info' = book_info]_vars

\* ServiceUnavailable was answered while the book is on the shelf and in
\* stock, after an order for it had been persisted
C19_Witness ==
    /\ result = ServiceUnavailable
    /\ 1 \in DOMAIN books
    /\ books[1].available
    /\ books[1].stock_quantity >= 1
    /\ Len(orders) > 0
    /\ \A p \in Procs : pc[p] = "idle"

\* C20: a new order has no rental_returned_date; a step gives an order its
\* first rental_returned_date only as a successful ReturnRental on it, and
\* UpdateStatus, to RETURNED or to anything else, leaves the
\* rental_returned_date of every order as it was.
C20_OnlyReturnSetsDate ==
    /\ [][Created => Newest.rental_returned_date = NULL]_vars
    /\ [][\A i \in Ids :
            Order(i).rental_returned_date = NULL
               /\ orders'[i].rental_returned_date # NULL =>
                   /\ Returnable(i, Order(i).user_id)
                   /\ result' = Response("return", 200, "ok")
                   /\ orders'[i].status = RETURNED]_vars
    /\ [][\A id \in Ids, u \in Users, s \in OrderStatus :
            UpdateStatus(id, u, s, NULL) =>
                \A i \in Ids :
                    orders'[i].rental_returned_date = Order(i).rental_returned_date]_vars

\* a rental moved to RETURNED by UpdateStatus: no return date is recorded
C20_Witness ==
    /\ result = Response("update", 200, "ok")
    /\ \E i \in Ids :
          /\ Order(i).order_type = RENT
          /\ Order(i).status = RETURNED
          /\ Order(i).rental_returned_date = NULL

\* C21: in every reachable state the notes of every order are null or at
\* most 500 characters long.
C21_NotesBounded ==
    \A i \in Ids : Order(i).notes = NULL \/ Order(i).notes <= MaxNotesLen

\* the sum of f over the users in S
RECURSIVE SumOver(_, _)
SumOver(f, S) ==
    IF S = {} THEN 0
    ELSE LET u == CHOOSE x \in S : TRUE IN f[u] + SumOver(f, S \ {u})

\* C22: in every state each of AdminSummary's total_orders,
\* total_purchases, total_rentals, total_revenue and active_rentals is the
\* sum over all users of the same field of Summary (total_amount_spent for
\* total_revenue), and overdue_rentals is the number of orders OverdueRentals
\* returns without a user filter, which is the number of past-due rentals.
C22_AdminSummary ==
    LET per == [u \in Users |-> Summary(u)]
    IN /\ AdminSummary.total_orders = SumOver([u \in Users |-> per[u].total_orders], Users)
       /\ AdminSummary.total_purchases =
             SumOver([u \in Users |-> per[u].total_purchases], Users)
       /\ AdminSummary.total_rentals =
             SumOver([u \in Users |-> per[u].total_rentals], Users)
       /\ AdminSummary.total_revenue =
             SumOver([u \in Users |-> per[u].total_amount_spent], Users)
       /\ AdminSummary.active_rentals =
             SumOver([u \in Users |-> per[u].active_rentals], Users)
       /\ AdminSummary.overdue_rentals = Len(OverdueRentals(NULL))
       /\ AdminSummary.overdue_rentals = Cardinality(PastDue(NULL))

\* user 1 holds an overdue rental, user 2 a cancelled purchase: one order
\* each, revenue from the rental alone, one rental active and overdue
C22_Witness ==
    /\ \E i \in Mine(1) : Order(i).order_type = RENT /\ Order(i).rental_end_date < now
    /\ \E j \in Mine(2) : Order(j).order_type = BUY /\ Order(j).status = CANCELLED
    /\ AdminSummary.total_orders = 2
    /\ Summary(1).total_orders = 1
    /\ Summary(2).total_orders = 1
    /\ AdminSummary.total_revenue = Summary(1).total_amount_spent
    /\ AdminSummary.total_revenue > 0
    /\ AdminSummary.active_rentals = 1
    /\ AdminSummary.overdue_rentals = 1

\* the response says that the book already exists
AlreadyExists(response) ==
    response.detail \in
        {"Book with this ISBN already exists"}
        \cup {"Book with ISBN '" \o i \o "' already exists in catalog" : i \in Isbns \ {NoIsbn}}

\* the ISBN is not null and a book of the catalog holds it
Held(isbn) == isbn # NoIsbn /\ \E b \in DOMAIN books : books[b].isbn = isbn

\* C23: creating or importing a book whose non-null ISBN an existing book
\* holds is rejected with an 'already exists' error and adds no book, and in
\* every state no two books share a non-null ISBN.
C23_UniqueIsbn ==
    /\ [](UniqueIsbn(books))
    /\ [][\A b \in BookCreates :
            ((CreateBook(b) \/ ImportBook(b)) /\ Held(b.isbn))
                => (AlreadyExists(result') /\ books' = books)]_vars

\* a user is registered under the email
Registered(email) == \E i \in 1..Len(users) : users[i].email = email

\* C24: registering with an email that is already registered fails with
\* 'Email already registered' and creates no user, and in every state no two
\* users share an email.
C24_DuplicateEmail ==
    /\ [](\A i, j \in 1..Len(users) : i # j => users[i].email # users[j].email)
    /\ [][\A u \in UserCreates :
            (register_user(u) /\ Registered(u.email))
                => /\ result' = Response("register", 400, "Email already registered")
                   /\ users' = users]_vars

C24_Witness ==
    /\ Len(users) = 2
    /\ result = Response("register", 400, "Email already registered")

\* C25: CreateOrder applies its catalog checks in a fixed order and the first
\* failing one determines the error: no such book gives 404; otherwise a false
\* availability flag gives 'Book is not available' even when the stock is
\* below the quantity; otherwise a stock below the quantity gives 'Not enough
\* stock'; and in every failing case no order is persisted or left to insert.
C25_CheckOrder ==
    [][\A p \in Procs, r \in StockReqs :
        (CreateOrderCheck(p, r, TRUE) /\ ValidOrderCreate(r)) =>
            LET failed == /\ orders' = orders
                          /\ pc'[p] = "idle"
            IN  IF r.book_id \notin DOMAIN books
                THEN result' = Response("create", 404, "Book not found") /\ failed
                ELSE IF ~books[r.book_id].available
                THEN result' = Response("create", 400, "Book is not available") /\ failed
                ELSE IF books[r.book_id].stock_quantity < r.quantity
                THEN result' = Response("create", 400, "Not enough stock") /\ failed
                ELSE pc'[p] = "checked"]_vars

C25_Witness ==
    /\ result = Response("create", 400, "Book is not available")
    /\ ~books[1].available
    /\ books[1].stock_quantity = 0
    /\ orders = <<>>

\* the fields of an order that no update and no return writes
Kept(old, new) ==
    /\ new.id = old.id
    /\ new.order_type = old.order_type
    /\ new.user_id = old.user_id
    /\ new.book_id = old.book_id
    /\ new.unit_price = old.unit_price
    /\ new.quantity = old.quantity
    /\ new.total_amount = old.total_amount
    /\ new.rental_days = old.rental_days
    /\ new.rental_start_date = old.rental_start_date
    /\ new.rental_end_date = old.rental_end_date

\* every order but the one with the id is as it was, and none is added or removed
OthersUnchanged(id) ==
    /\ Len(orders') = Len(orders)
    /\ \A i \in 1..Len(orders) : i # id => orders'[i] = orders[i]

\* C26: UpdateStatus and ReturnRental change only the targeted order's status,
\* notes, updated_at and (ReturnRental only) rental_returned_date: its other
\* fields are unchanged, every other order is unchanged, and no step of any
\* operation removes an order.
C26_Frame ==
    [][/\ Len(orders') >= Len(orders)
       /\ \A i \in 1..Len(orders) : orders'[i].id = orders[i].id
       /\ \A id \in 1..Len(orders), u \in Users :
            /\ \A s \in OrderStatus :
                  UpdateStatus(id, u, s, NULL) =>
                      /\ OthersUnchanged(id)
                      /\ Kept(orders[id], orders'[id])
                      /\ orders'[id].rental_returned_date = orders[id].rental_returned_date
            /\ ReturnRental(id, u, NULL, NULL) =>
                  /\ OthersUnchanged(id)
                  /\ Kept(orders[id], orders'[id])]_vars

C26_Witness ==
    /\ Len(orders) = 2
    /\ Order(1).order_type = RENT
    /\ Order(1).status = RETURNED
    /\ Order(1).rental_returned_date = 0
    /\ Order(1).rental_end_date = 1
    /\ Order(2).status = CANCELLED
    /\ Order(2).total_amount > 0

\* C27 as stated: in every reachable state an order has status RETURNED if
\* and only if its rental_returned_date is non-null.
C27_AsStated ==
    \A i \in Ids : Order(i).status = RETURNED <=> Order(i).rental_returned_date # NULL

\* C27: in every reachable state an order with a recorded return date is a
\* RENTAL order, and a successful ReturnRental leaves its order in status
\* RETURNED with a return date; the status alone follows UpdateStatus, which
\* neither records nor clears the date.
C27_ReturnDate ==
    /\ [](\A i \in Ids : Order(i).rental_returned_date # NULL => Order(i).order_type = RENT)
    /\ [][\A id \in OrderIds, u \in Users, d \in ReturnDates :
            (ReturnRental(id, u, d, NULL) /\ result'.status = 200) =>
                /\ orders'[id].status = RETURNED
                /\ orders'[id].rental_returned_date # NULL]_vars

C27_Witness ==
    /\ Len(orders) = 1
    /\ Order(1).order_type = RENT
    /\ Order(1).rental_returned_date # NULL
    /\ Order(1).status = CONFIRMED

\* C28 as stated: once rental_returned_date is set, no later step changes it
\* and no later ReturnRental on the order succeeds.
C28_AsStated ==
    [][\A i \in Ids :
          Order(i).rental_returned_date # NULL =>
              /\ orders'[i].rental_returned_date = Order(i).rental_returned_date
              /\ \A u \in Users, d \in ReturnDates :
                    ReturnRental(i, u, d, NULL) => result' = NotReturnable]_vars

\* C28: once rental_returned_date is set, UpdateStatus never changes it and
\* ReturnRental on the order fails with NotFound, changing nothing, while the
\* status is not CONFIRMED or COMPLETED; the date changes only by a
\* ReturnRental that succeeds after UpdateStatus has moved the order back to
\* CONFIRMED or COMPLETED, and it is then overwritten, never cleared.
C28_ReturnedAgain ==
    [][\A i \in Ids :
          Order(i).rental_returned_date # NULL =>
              /\ orders'[i].rental_returned_date # Order(i).rental_returned_date
                    => /\ Order(i).status \in {CONFIRMED, COMPLETED}
                       /\ result' = Response("return", 200, "ok")
                       /\ orders'[i].status = RETURNED
                       /\ orders'[i].rental_returned_date # NULL
              /\ \A u \in Users, d \in ReturnDates :
                    (ReturnRental(i, u, d, NULL)
                        /\ Order(i).status \notin {CONFIRMED, COMPLETED})
                    => result' = NotReturnable /\ orders' = orders
              /\ \A u \in Users \cup {NULL}, s \in OrderStatus :
                    UpdateStatus(i, u, s, NULL)
                    => orders'[i].rental_returned_date = Order(i).rental_returned_date]_vars

\* a return refused on an order that has a return date and that UpdateStatus
\* has since cancelled
C28_Witness ==
    /\ result = NotReturnable
    /\ Len(orders) = 1
    /\ Order(1).rental_returned_date # NULL
    /\ Order(1).status = CANCELLED

\* C29: no order operation changes the catalog, and a successful CreateOrder
\* leaves the stock_quantity and the availability flag of its book as they
\* were; so sequential CreateOrder calls for one book persist orders whose
\* quantities total more than its stock_quantity.
C29_CatalogUntouched ==
    [][/\ books' = books
       /\ Created =>
            /\ books'[Newest.book_id].stock_quantity = books[Newest.book_id].stock_quantity
            /\ books'[Newest.book_id].available = books[Newest.book_id].available
            /\ Newest.quantity <= books'[Newest.book_id].stock_quantity]_vars

\* two orders for book 1, each within its stock when placed, together beyond it
C29_Witness ==
    /\ Len(orders) = 2
    /\ result = Response("create", 200, "ok")
    /\ Order(1).book_id = 1 /\ Order(2).book_id = 1
    /\ Order(1).status = CONFIRMED /\ Order(2).status = CONFIRMED
    /\ Order(1).quantity + Order(2).quantity > books[1].stock_quantity
    /\ books[1].available

\* C30: in every state, for Summary of each user and for AdminSummary,
\* total_orders = total_purchases + total_rentals: every order, whatever its
\* status, is counted in exactly one of the two type totals.
C30_TypeTotals ==
    /\ \A u \in Users :
          Summary(u).total_orders = Summary(u).total_purchases + Summary(u).total_rentals
    /\ AdminSummary.total_orders = AdminSummary.total_purchases + AdminSummary.total_rentals

\* user 1 holds a cancelled rental and a purchase, each counted under its type
C30_Witness ==
    /\ Len(orders) = 2
    /\ \E i \in Ids : Order(i).order_type = RENT /\ Order(i).status = CANCELLED
    /\ Summary(1).total_orders = 2
    /\ Summary(1).total_purchases = 1
    /\ Summary(1).total_rentals = 1
    /\ AdminSummary.total_orders = 2
    /\ AdminSummary.total_rentals = 1
====
